---------------------------- MODULE Spec2Model ----------------------------
(***************************************************************************)
(* A model of the Nagios XI exporter of src/main.go: the Collect pipeline  *)
(* (liveness probe, then the info, hoststatus and servicestatus requests,  *)
(* the two aggregation loops and the metrics sent on the channel), with    *)
(* several Collect invocations running concurrently as the Prometheus      *)
(* registry runs them, and the two aggregation loops on their own.         *)
(*                                                                         *)
(* The float64 fields of the decoded payloads are modelled by the integers *)
(* they hold (the backend sends integers in quoted strings); the Go int    *)
(* counters never leave the range of the list lengths.                     *)
(* http.NewRequest fails only on a malformed URL; the URL is fixed at      *)
(* construction (main.go:551) and is taken to be well formed.              *)
(***************************************************************************)
EXTENDS Integers, Sequences, FiniteSets, TLC

\* ------------------------------------------------------------- bounds

\* Collect invocations that may be in flight at the same time.
NumCollects == 2

\* Longest record list given to an aggregation loop on its own.
MaxRecords == 2

\* ---------------------------------------------------- program constants

systemstatusAPI == "/system/status"

systeminfoAPI == "/system/info"

hoststatusAPI == "/objects/hoststatus"

servicestatusAPI == "/objects/servicestatus"

\* prometheus.BuildFQName(namespace, "", name) joins the non-empty parts with "_".
up == "nagios_up"

hostsTotal == "nagios_hosts_total"

hostsActivelyCheckedTotal == "nagios_hosts_actively_checked_total"

hostsPassivelyCheckedTotal == "nagios_hosts_passively_checked_total"

hostsUp == "nagios_hosts_up_total"

hostsDown == "nagios_hosts_down_total"

hostsUnreachable == "nagios_hosts_unreachable_total"

hostsFlapping == "nagios_hosts_flapping_total"

hostsDowntime == "nagios_hosts_downtime_total"

servicesTotal == "nagios_services_total"

servicesActivelyCheckedTotal == "nagios_services_actively_checked_total"

servicesPassivelyCheckedTotal == "nagios_services_passively_checked_total"

servicesOk == "nagios_services_ok_total"

servicesWarn == "nagios_services_warn_total"

servicesCritical == "nagios_services_critical_total"

servicesUnknown == "nagios_services_unknown_total"

servicesFlapping == "nagios_services_flapping_total"

servicesDowntime == "nagios_services_downtime_total"

versionInfo == "nagios_version_info"

\* ------------------------------------------------------ decoded payloads

\* Values a check_type field takes: 0 is active, anything else passive.
CheckTypeValues == {0, 1}

\* Values a host's current_state takes: up, down, unreachable, and one outside.
HostStateValues == {0, 1, 2, 3}

\* Values a service's current_state takes: ok, warn, critical, unknown, and one outside.
ServiceStateValues == {0, 1, 2, 3, 4}

\* Values of is_flapping and scheduled_downtime_depth.
FlagValues == {0, 1}

\* Values of has_been_checked and should_be_scheduled (counted, never emitted).
CheckedValues == {1}

\* An element of hostStatus.Hoststatus (host_object_id is decoded and never read).
HostRecords ==
    [CheckType : CheckTypeValues, CurrentState : HostStateValues,
     IsFlapping : FlagValues, ScheduledDowntimeDepth : FlagValues]

\* An element of serviceStatus.Servicestatus.
ServiceRecords ==
    [HasBeenChecked : CheckedValues, ShouldBeScheduled : CheckedValues,
     CheckType : CheckTypeValues, CurrentState : ServiceStateValues,
     IsFlapping : FlagValues, ScheduledDowntimeDepth : FlagValues]

HostRec(ct, st, fl, dt) ==
    [CheckType |-> ct, CurrentState |-> st, IsFlapping |-> fl,
     ScheduledDowntimeDepth |-> dt]

ServiceRec(ct, st, fl, dt) ==
    [HasBeenChecked |-> 1, ShouldBeScheduled |-> 1, CheckType |-> ct,
     CurrentState |-> st, IsFlapping |-> fl, ScheduledDowntimeDepth |-> dt]

\* The zero value of each decoded object, as its declaration leaves it.
NoStatus == [decoded |-> FALSE, Running |-> 0]

NoInfo == [decoded |-> FALSE, Version |-> ""]

NoList == [decoded |-> FALSE, Recordcount |-> 0, list |-> <<>>]

\* What the backend may answer to each request of the pipeline.
RunningValues == {0, 1}

Versions == {"5.8.10"}

BackendHostResponses ==
    { [decoded |-> TRUE, Recordcount |-> 0, list |-> <<>>],
      [decoded |-> TRUE, Recordcount |-> 1, list |-> <<HostRec(1, 1, 1, 1)>>],
      [decoded |-> TRUE, Recordcount |-> 3,
       list |-> <<HostRec(0, 0, 0, 0), HostRec(0, 3, 0, 0)>>] }

BackendServiceResponses ==
    { [decoded |-> TRUE, Recordcount |-> 0, list |-> <<>>],
      [decoded |-> TRUE, Recordcount |-> 1, list |-> <<ServiceRec(0, 2, 0, 0)>>],
      [decoded |-> TRUE, Recordcount |-> 3,
       list |-> <<ServiceRec(1, 1, 1, 0), ServiceRec(0, 0, 0, 1)>>] }

\* How one request can end: the three failures the code tests for, or success.
Failures == {"network", "read", "decode"}

NoError == [api |-> "", err |-> "nil"]

\* ------------------------------------------------------------ aggregation

ZeroHostCounters ==
    [hostsCount |-> 0, hostsActiveCheckCount |-> 0, hostsPassiveCheckCount |-> 0,
     hostsUpCount |-> 0, hostsDownCount |-> 0, hostsUnreachableCount |-> 0,
     hostsFlapCount |-> 0, hostsDowntimeCount |-> 0]

ZeroServiceCounters ==
    [servicesCount |-> 0, servicessCheckedCount |-> 0, servicesScheduledCount |-> 0,
     servicesActiveCheckCount |-> 0, servicesPassiveCheckCount |-> 0,
     servicesOkCount |-> 0, servicesWarnCount |-> 0, servicesCriticalCount |-> 0,
     servicesUnknownCount |-> 0, servicesFlapCount |-> 0, servicesDowntimeCount |-> 0]

\* The host loop with a default case that counts an unknown state as unreachable.
HostStepDefaultUnreachable(c, v) ==
    LET c1 == [c EXCEPT !.hostsCount = @ + 1]
        c2 == IF v.CheckType = 0
              THEN [c1 EXCEPT !.hostsActiveCheckCount = @ + 1]
              ELSE [c1 EXCEPT !.hostsPassiveCheckCount = @ + 1]
        c3 == CASE v.CurrentState = 0 -> [c2 EXCEPT !.hostsUpCount = @ + 1]
                [] v.CurrentState = 1 -> [c2 EXCEPT !.hostsDownCount = @ + 1]
                [] OTHER -> [c2 EXCEPT !.hostsUnreachableCount = @ + 1]
        c4 == IF v.IsFlapping = 1 THEN [c3 EXCEPT !.hostsFlapCount = @ + 1] ELSE c3
    IN  IF v.ScheduledDowntimeDepth = 1
        THEN [c4 EXCEPT !.hostsDowntimeCount = @ + 1]
        ELSE c4

\* One iteration of the host loop.
HostStep(c, v) ==
    LET c1 == [c EXCEPT !.hostsCount = @ + 1]
        c2 == IF v.CheckType = 0
              THEN [c1 EXCEPT !.hostsActiveCheckCount = @ + 1]
              ELSE [c1 EXCEPT !.hostsPassiveCheckCount = @ + 1]
        c3 == CASE v.CurrentState = 0 -> [c2 EXCEPT !.hostsUpCount = @ + 1]
                [] v.CurrentState = 1 -> [c2 EXCEPT !.hostsDownCount = @ + 1]
                [] v.CurrentState = 2 -> [c2 EXCEPT !.hostsUnreachableCount = @ + 1]
                [] OTHER -> c2
        c4 == IF v.IsFlapping = 1 THEN [c3 EXCEPT !.hostsFlapCount = @ + 1] ELSE c3
    IN  IF v.ScheduledDowntimeDepth = 1
        THEN [c4 EXCEPT !.hostsDowntimeCount = @ + 1]
        ELSE c4

\* One iteration of the service loop.
ServiceStep(c, v) ==
    LET c1 == [c EXCEPT !.servicesCount = @ + 1]
        c2 == IF v.HasBeenChecked = 0
              THEN [c1 EXCEPT !.servicessCheckedCount = @ + 1] ELSE c1
        c3 == IF v.ShouldBeScheduled = 0
              THEN [c2 EXCEPT !.servicesScheduledCount = @ + 1] ELSE c2
        c4 == IF v.CheckType = 0
              THEN [c3 EXCEPT !.servicesActiveCheckCount = @ + 1]
              ELSE [c3 EXCEPT !.servicesPassiveCheckCount = @ + 1]
        c5 == CASE v.CurrentState = 0 -> [c4 EXCEPT !.servicesOkCount = @ + 1]
                [] v.CurrentState = 1 -> [c4 EXCEPT !.servicesWarnCount = @ + 1]
                [] v.CurrentState = 2 -> [c4 EXCEPT !.servicesCriticalCount = @ + 1]
                [] v.CurrentState = 3 -> [c4 EXCEPT !.servicesUnknownCount = @ + 1]
                [] OTHER -> c4
        c6 == IF v.IsFlapping = 1 THEN [c5 EXCEPT !.servicesFlapCount = @ + 1] ELSE c5
    IN  IF v.ScheduledDowntimeDepth = 1
        THEN [c6 EXCEPT !.servicesDowntimeCount = @ + 1]
        ELSE c6

\* The host loop started at the second record (an index loop from 1).
RECURSIVE HostLoopSkipsFirst(_)
HostLoopSkipsFirst(list) ==
    IF Len(list) <= 1
    THEN ZeroHostCounters
    ELSE HostStep(HostLoopSkipsFirst(SubSeq(list, 1, Len(list) - 1)), list[Len(list)])

\* for _, v := range hostStatusObject.Hoststatus, from the zeroed counters.
RECURSIVE HostLoop(_)
HostLoop(list) ==
    IF list = <<>>
    THEN ZeroHostCounters
    ELSE HostStep(HostLoop(SubSeq(list, 1, Len(list) - 1)), list[Len(list)])

\* for _, v := range serviceStatusObject.Servicestatus, from the zeroed counters.
RECURSIVE ServiceLoop(_)
ServiceLoop(list) ==
    IF list = <<>>
    THEN ZeroServiceCounters
    ELSE ServiceStep(ServiceLoop(SubSeq(list, 1, Len(list) - 1)), list[Len(list)])

\* ---------------------------------------------------------------- metrics

\* prometheus.MustNewConstMetric(desc, GaugeValue, value, labelValues...)
Metric(desc, value, label) == [name |-> desc, value |-> value, label |-> label]

\* The seven host metrics sent after the host loop, in the order of the code.
HostMetrics(c) ==
    << Metric(hostsActivelyCheckedTotal, c.hostsActiveCheckCount, ""),
       Metric(hostsPassivelyCheckedTotal, c.hostsPassiveCheckCount, ""),
       Metric(hostsUp, c.hostsUpCount, ""),
       Metric(hostsDown, c.hostsDownCount, ""),
       Metric(hostsUnreachable, c.hostsUnreachableCount, ""),
       Metric(hostsFlapping, c.hostsFlapCount, ""),
       Metric(hostsDowntime, c.hostsDowntimeCount, "") >>

\* The eight service metrics sent after the service loop, in the order of the
\* code: the passive metric reads the host counter, the critical metric the
\* warn counter.
ServiceMetrics(h, s) ==
    << Metric(servicesActivelyCheckedTotal, s.servicesActiveCheckCount, ""),
       Metric(servicesPassivelyCheckedTotal, h.hostsPassiveCheckCount, ""),
       Metric(servicesOk, s.servicesOkCount, ""),
       Metric(servicesWarn, s.servicesWarnCount, ""),
       Metric(servicesCritical, s.servicesWarnCount, ""),
       Metric(servicesUnknown, s.servicesUnknownCount, ""),
       Metric(servicesFlapping, s.servicesFlapCount, ""),
       Metric(servicesDowntime, s.servicesDowntimeCount, "") >>


\* ------------------------------------------------------------------ state

Collects == 1..NumCollects

VARIABLES
    alive,                \* the exporter process has not exited
    pc,                   \* where each Collect invocation stands
    systemStatusObject,   \* each invocation's decoded /system/status
    systemInfoObject,     \* each invocation's decoded /system/info
    hostStatusObject,     \* each invocation's decoded /objects/hoststatus
    serviceStatusObject,  \* each invocation's decoded /objects/servicestatus
    hostCounters,         \* the host counters declared in the function body
    ch,                   \* the metrics each invocation has sent on its channel
    requested,            \* the resources each invocation has requested, in order
    lastErr,              \* the error each invocation met, if any
    aggKind,              \* aggregation on its own: "host", "service" or "none"
    aggRecords,           \* aggregation on its own: the record list
    aggPrev,              \* aggregation on its own: the run before the last, if any
    aggLast,              \* aggregation on its own: the last run, if any
    aggPermuted           \* aggregation on its own: the last run took another order

vars ==
    << alive, pc, systemStatusObject, systemInfoObject, hostStatusObject,
       serviceStatusObject, hostCounters, ch, requested, lastErr,
       aggKind, aggRecords, aggPrev, aggLast, aggPermuted >>

pipelineVars ==
    << alive, pc, systemStatusObject, systemInfoObject, hostStatusObject,
       serviceStatusObject, hostCounters, ch, requested, lastErr >>

aggVars == << aggKind, aggRecords, aggPrev, aggLast, aggPermuted >>

NoRun == [ran |-> FALSE, hosts |-> ZeroHostCounters, services |-> ZeroServiceCounters]

PipelineInit ==
    /\ alive = TRUE
    /\ pc = [i \in Collects |-> "idle"]
    /\ systemStatusObject = [i \in Collects |-> NoStatus]
    /\ systemInfoObject = [i \in Collects |-> NoInfo]
    /\ hostStatusObject = [i \in Collects |-> NoList]
    /\ serviceStatusObject = [i \in Collects |-> NoList]
    /\ hostCounters = [i \in Collects |-> ZeroHostCounters]
    /\ ch = [i \in Collects |-> <<>>]
    /\ requested = [i \in Collects |-> <<>>]
    /\ lastErr = [i \in Collects |-> NoError]

Init ==
    /\ PipelineInit
    /\ aggKind = "none"
    /\ aggRecords = <<>>
    /\ aggPrev = NoRun
    /\ aggLast = NoRun
    /\ aggPermuted = FALSE

\* ------------------------------------------------------------- the pipeline

\* The counters of invocation i are variables of its own call of
\* HitNagiosRestApisAndUpdateMetrics.
CounterSlotShared(i) == 1

CounterSlot(i) == i

\* if err != nil { ... return } in Collect.
EarlyReturnWhenDown(nagiosStatus, err) == err # "nil" \/ nagiosStatus = 0

EarlyReturn(nagiosStatus, err) == err # "nil"

\* A failed request is logged and the step is left to be taken again.
RetryInstead(i, api, failure) ==
    /\ requested' = [requested EXCEPT ![i] = Append(@, api)]
    /\ lastErr' = [lastErr EXCEPT ![i] = [api |-> api, err |-> failure]]
    /\ UNCHANGED << alive, pc, systemStatusObject, systemInfoObject, hostStatusObject,
                    serviceStatusObject, hostCounters, ch >>

\* os.Exit(1) after a failed http.DefaultClient.Do, log.Fatal after a failed
\* ioutil.ReadAll or json.Unmarshal: the process ends, whatever else is running.
Fatal(i, api, failure) ==
    /\ alive' = FALSE
    /\ requested' = [requested EXCEPT ![i] = Append(@, api)]
    /\ lastErr' = [lastErr EXCEPT ![i] = [api |-> api, err |-> failure]]
    /\ UNCHANGED << pc, systemStatusObject, systemInfoObject, hostStatusObject,
                    serviceStatusObject, hostCounters, ch >>

\* Collect up to the call of HitNagiosRestApisAndUpdateMetrics: it runs
\* TestNagiosConnectivity, which returns the decoded Running value and the nil
\* error of the request that succeeded, and sends up.
Collect(i) ==
    /\ alive
    /\ pc[i] = "idle"
    /\ UNCHANGED aggVars
    /\ \/ \E failure \in Failures : Fatal(i, systemstatusAPI, failure)
       \/ \E r \in RunningValues :
            LET nagiosStatus == r
                err == "nil"
            IN  /\ requested' = [requested EXCEPT ![i] = Append(@, systemstatusAPI)]
                /\ systemStatusObject' =
                       [systemStatusObject EXCEPT ![i] = [decoded |-> TRUE, Running |-> r]]
                /\ ch' = [ch EXCEPT ![i] = Append(@, Metric(up, nagiosStatus, ""))]
                /\ pc' = [pc EXCEPT ![i] =
                              IF EarlyReturn(nagiosStatus, err) THEN "done" ELSE "info"]
                /\ UNCHANGED << alive, systemInfoObject, hostStatusObject,
                                serviceStatusObject, hostCounters, lastErr >>

\* HitNagiosRestApisAndUpdateMetrics, the /system/info request and version_info.
GetSystemInfo(i) ==
    /\ alive
    /\ pc[i] = "info"
    /\ UNCHANGED aggVars
    /\ \/ \E failure \in Failures : Fatal(i, systeminfoAPI, failure)
       \/ \E v \in Versions :
            /\ requested' = [requested EXCEPT ![i] = Append(@, systeminfoAPI)]
            /\ systemInfoObject' =
                   [systemInfoObject EXCEPT ![i] = [decoded |-> TRUE, Version |-> v]]
            /\ ch' = [ch EXCEPT ![i] = Append(@, Metric(versionInfo, 1, v))]
            /\ pc' = [pc EXCEPT ![i] = "hosts"]
            /\ UNCHANGED << alive, systemStatusObject, hostStatusObject,
                            serviceStatusObject, hostCounters, lastErr >>

\* The /objects/hoststatus request, hosts_total from the decoded recordcount,
\* the host loop and the seven host metrics.
GetHostStatus(i) ==
    /\ alive
    /\ pc[i] = "hosts"
    /\ UNCHANGED aggVars
    /\ \/ \E failure \in Failures : Fatal(i, hoststatusAPI, failure)
       \/ \E resp \in BackendHostResponses :
            LET counters == HostLoop(resp.list)
            IN  /\ requested' = [requested EXCEPT ![i] = Append(@, hoststatusAPI)]
                /\ hostStatusObject' = [hostStatusObject EXCEPT ![i] = resp]
                /\ hostCounters' = [hostCounters EXCEPT ![CounterSlot(i)] = counters]
                /\ ch' = [ch EXCEPT ![i] =
                              Append(@, Metric(hostsTotal, resp.Recordcount, ""))
                                  \o HostMetrics(counters)]
                /\ pc' = [pc EXCEPT ![i] = "services"]
                /\ UNCHANGED << alive, systemStatusObject, systemInfoObject,
                                serviceStatusObject, lastErr >>

\* The /objects/servicestatus request, services_total from the decoded
\* recordcount, the service loop and the eight service metrics; then
\* HitNagiosRestApisAndUpdateMetrics and Collect return.
GetServiceStatus(i) ==
    /\ alive
    /\ pc[i] = "services"
    /\ UNCHANGED aggVars
    /\ \/ \E failure \in Failures : Fatal(i, servicestatusAPI, failure)
       \/ \E resp \in BackendServiceResponses :
            LET counters == ServiceLoop(resp.list)
            IN  /\ requested' = [requested EXCEPT ![i] = Append(@, servicestatusAPI)]
                /\ serviceStatusObject' = [serviceStatusObject EXCEPT ![i] = resp]
                /\ ch' = [ch EXCEPT ![i] =
                              Append(@, Metric(servicesTotal, resp.Recordcount, ""))
                                  \o ServiceMetrics(hostCounters[CounterSlot(i)], counters)]
                /\ pc' = [pc EXCEPT ![i] = "done"]
                /\ UNCHANGED << alive, systemStatusObject, systemInfoObject,
                                hostStatusObject, hostCounters, lastErr >>

\* The registry has read what the invocation sent; the next scrape calls
\* Collect afresh, with new locals and a new channel.
Gathered(i) ==
    /\ alive
    /\ pc[i] = "done"
    /\ pc' = [pc EXCEPT ![i] = "idle"]
    /\ systemStatusObject' = [systemStatusObject EXCEPT ![i] = NoStatus]
    /\ systemInfoObject' = [systemInfoObject EXCEPT ![i] = NoInfo]
    /\ hostStatusObject' = [hostStatusObject EXCEPT ![i] = NoList]
    /\ serviceStatusObject' = [serviceStatusObject EXCEPT ![i] = NoList]
    /\ hostCounters' = [hostCounters EXCEPT ![CounterSlot(i)] = ZeroHostCounters]
    /\ ch' = [ch EXCEPT ![i] = <<>>]
    /\ requested' = [requested EXCEPT ![i] = <<>>]
    /\ UNCHANGED << alive, lastErr >>
    /\ UNCHANGED aggVars

Next ==
    \E i \in Collects :
        \/ Collect(i)
        \/ GetSystemInfo(i)
        \/ GetHostStatus(i)
        \/ GetServiceStatus(i)
        \/ Gathered(i)

Spec == Init /\ [][Next]_vars

\* ------------------------------------------------- aggregation on its own

ListsOf(S) == UNION { [1..n -> S] : n \in 0..MaxRecords }

\* The orders in which a list of n records can arrive.
Orders == [n \in 0..(MaxRecords + 1) |->
              { p \in [1..n -> 1..n] : \A a, b \in 1..n : a # b => p[a] # p[b] }]

Permute(list, p) == [k \in 1..Len(list) |-> list[p[k]]]

AggInit ==
    /\ PipelineInit
    /\ \/ aggKind = "host" /\ aggRecords \in ListsOf(HostRecords)
       \/ aggKind = "service" /\ aggRecords \in ListsOf(ServiceRecords)
    /\ aggPrev = NoRun
    /\ aggLast = NoRun
    /\ aggPermuted = FALSE

\* The host loop runs over the records in some order of arrival.
RunHostLoop ==
    /\ aggKind = "host"
    /\ \E p \in Orders[Len(aggRecords)] :
         /\ aggLast' = [ran |-> TRUE, hosts |-> HostLoop(Permute(aggRecords, p)),
                        services |-> ZeroServiceCounters]
         /\ aggPermuted' = (Permute(aggRecords, p) # aggRecords)
    /\ aggPrev' = aggLast
    /\ UNCHANGED << aggKind, aggRecords >>
    /\ UNCHANGED pipelineVars

\* The service loop runs over the records in some order of arrival.
RunServiceLoop ==
    /\ aggKind = "service"
    /\ \E p \in Orders[Len(aggRecords)] :
         /\ aggLast' = [ran |-> TRUE, hosts |-> ZeroHostCounters,
                        services |-> ServiceLoop(Permute(aggRecords, p))]
         /\ aggPermuted' = (Permute(aggRecords, p) # aggRecords)
    /\ aggPrev' = aggLast
    /\ UNCHANGED << aggKind, aggRecords >>
    /\ UNCHANGED pipelineVars

AggNext == RunHostLoop \/ RunServiceLoop

SpecAgg == AggInit /\ [][AggNext]_vars


\* ----------------------------------------------------------------- claims

\* The number of records of a list that satisfy Test.
Count(list, Test(_)) == Cardinality({ k \in DOMAIN list : Test(list[k]) })

\* The values invocation i has sent under a metric name.
Sent(i, desc) == { ch[i][k].value : k \in { n \in DOMAIN ch[i] : ch[i][n].name = desc } }

Names(i) == { ch[i][k].name : k \in DOMAIN ch[i] }

HostNames ==
    { hostsTotal, hostsActivelyCheckedTotal, hostsPassivelyCheckedTotal, hostsUp,
      hostsDown, hostsUnreachable, hostsFlapping, hostsDowntime }

ServiceNames ==
    { servicesTotal, servicesActivelyCheckedTotal, servicesPassivelyCheckedTotal,
      servicesOk, servicesWarn, servicesCritical, servicesUnknown, servicesFlapping,
      servicesDowntime }

IsPrefix(s, t) == Len(s) <= Len(t) /\ \A k \in DOMAIN s : s[k] = t[k]

\* C1: when the /system/status probe of an invocation fails with a network
\* error, the invocation sends up = 0 and nothing else, returns, and the
\* process is still running.
C1_ProbeFailureDegrades ==
    \A i \in Collects :
        lastErr[i] = [api |-> "/system/status", err |-> "network"]
            => /\ alive
               /\ pc[i] = "done"
               /\ ch[i] = << Metric(up, 0, "") >>

\* C2: when the probe and the host-status request succeed and the
\* service-status payload fails to decode, the invocation has sent up = 1 and
\* the eight host metrics, sends no service metric, and the process has not
\* exited.
C2_ServiceDecodeFailureIsPartial ==
    \A i \in Collects :
        ( /\ lastErr[i] = [api |-> "/objects/servicestatus", err |-> "decode"]
          /\ systemStatusObject[i].Running = 1 )
            => /\ alive
               /\ Sent(i, up) = {1}
               /\ HostNames \subseteq Names(i)
               /\ ServiceNames \cap Names(i) = {}

\* C3: whatever the outcome of each backend request of each scrape, the
\* exporter process is never ended by a scrape.
C3_NoScrapeEndsTheProcess == alive

\* C4: each service metric an invocation has sent is the count taken over the
\* records of its service list alone.
C4_ServiceMetricsCountServices ==
    \A i \in Collects :
        (serviceStatusObject[i].decoded /\ pc[i] = "done") =>
            LET list == serviceStatusObject[i].list
                Active(v) == v.CheckType = 0
                Passive(v) == v.CheckType # 0
                Ok(v) == v.CurrentState = 0
                Warn(v) == v.CurrentState = 1
                Critical(v) == v.CurrentState = 2
                Unknown(v) == v.CurrentState = 3
            IN  /\ Sent(i, servicesActivelyCheckedTotal) = {Count(list, Active)}
                /\ Sent(i, servicesPassivelyCheckedTotal) = {Count(list, Passive)}
                /\ Sent(i, servicesOk) = {Count(list, Ok)}
                /\ Sent(i, servicesWarn) = {Count(list, Warn)}
                /\ Sent(i, servicesCritical) = {Count(list, Critical)}
                /\ Sent(i, servicesUnknown) = {Count(list, Unknown)}

\* C5: after the host loop over N records, active + passive = N, and
\* up + down + unreachable is the number of records whose state is 0, 1 or 2:
\* at most N, and N exactly when every state is one of the three.
C5_HostBucketsPartition ==
    (aggKind = "host" /\ aggLast.ran) =>
        LET c == aggLast.hosts
            N == Len(aggRecords)
            Known(v) == v.CurrentState \in {0, 1, 2}
            Active(v) == v.CheckType = 0
            states == c.hostsUpCount + c.hostsDownCount + c.hostsUnreachableCount
        IN  /\ c.hostsCount = N
            /\ c.hostsActiveCheckCount + c.hostsPassiveCheckCount = N
            /\ c.hostsActiveCheckCount = Count(aggRecords, Active)
            /\ states = Count(aggRecords, Known)
            /\ states <= N
            /\ (states = N) <=> (\A k \in DOMAIN aggRecords : Known(aggRecords[k]))

\* C5, reached: two hosts, one of them in a state outside 0, 1, 2, so that both
\* are in a check-type bucket and only one in a state bucket.
C5_Witness ==
    /\ aggKind = "host"
    /\ aggLast.ran
    /\ Len(aggRecords) = 2
    /\ aggRecords[1].CurrentState = 3
    /\ aggRecords[2].CurrentState = 1
    /\ aggRecords[1].CheckType # aggRecords[2].CheckType
    /\ aggLast.hosts.hostsActiveCheckCount = 1
    /\ aggLast.hosts.hostsPassiveCheckCount = 1
    /\ aggLast.hosts.hostsDownCount = 1
    /\ aggLast.hosts.hostsUpCount + aggLast.hosts.hostsUnreachableCount = 0

\* C6: what an invocation has sent is decided by the responses this invocation
\* fetched: the values copied from a response are those of its own response,
\* and two invocations that stand at the same place with the same responses
\* have sent the same metrics, whatever the others did in between.
C6_InvocationsShareNothing ==
    /\ \A i \in Collects :
        /\ systemStatusObject[i].decoded => Sent(i, up) = {systemStatusObject[i].Running}
        /\ hostStatusObject[i].decoded =>
               Sent(i, hostsTotal) = {hostStatusObject[i].Recordcount}
        /\ serviceStatusObject[i].decoded =>
               Sent(i, servicesTotal) = {serviceStatusObject[i].Recordcount}
    /\ \A i, j \in Collects :
        ( /\ pc[i] = pc[j]
          /\ systemStatusObject[i] = systemStatusObject[j]
          /\ systemInfoObject[i] = systemInfoObject[j]
          /\ hostStatusObject[i] = hostStatusObject[j]
          /\ serviceStatusObject[i] = serviceStatusObject[j] )
            => ch[i] = ch[j]

\* C6, reached: one invocation has finished and another, started meanwhile on
\* other host data, is between its host and service requests.
C6_Witness ==
    \E i, j \in Collects :
        /\ i # j
        /\ pc[i] = "done"
        /\ pc[j] = "services"
        /\ Len(hostStatusObject[i].list) = 2
        /\ Len(hostStatusObject[j].list) = 1
        /\ Len(ch[i]) = 19
        /\ Len(ch[j]) = 10

\* C7: the counters of a loop do not depend on the order in which the records
\* arrive, and a second run gives the counters of the first.
C7_AggregationIgnoresOrder ==
    /\ aggLast.ran =>
         /\ aggKind = "host" => aggLast.hosts = HostLoop(aggRecords)
         /\ aggKind = "service" => aggLast.services = ServiceLoop(aggRecords)
    /\ aggPrev.ran => aggPrev = aggLast

\* C7, reached: a second run over two different records, taken in the other
\* order.
C7_Witness ==
    /\ aggPrev.ran
    /\ aggLast.ran
    /\ aggPermuted
    /\ Len(aggRecords) = 2
    /\ aggRecords[1].CurrentState # aggRecords[2].CurrentState
    /\ aggRecords[1].IsFlapping # aggRecords[2].IsFlapping

\* C8: an invocation requests each resource at most once, in the order
\* status, info, hoststatus, servicestatus; up is the first metric it sends;
\* and it requests nothing more before the status response is decoded and up
\* sent.
C8_RequestsInOrderOnce ==
    \A i \in Collects :
        /\ IsPrefix(requested[i], << "/system/status", "/system/info",
                                     "/objects/hoststatus", "/objects/servicestatus" >>)
        /\ ch[i] # <<>> =>
               /\ ch[i][1].name = "nagios_up"
               /\ \A k \in DOMAIN ch[i] : k > 1 => ch[i][k].name # "nagios_up"
        /\ Len(requested[i]) > 1 =>
               /\ systemStatusObject[i].decoded
               /\ ch[i] # <<>>

\* C8, reached: an invocation that has made all four requests and returned.
C8_Witness ==
    \E i \in Collects :
        /\ pc[i] = "done"
        /\ Len(requested[i]) = 4
        /\ requested[i][4] = servicestatusAPI
        /\ Len(ch[i]) = 19

\* C9 as stated: an invocation that sent up = 0 sends no other metric and
\* requests no other resource.
C9_UpZeroStopsTheScrape ==
    \A i \in Collects :
        Sent(i, up) = {0} =>
            /\ Len(ch[i]) = 1
            /\ requested[i] = << systemstatusAPI >>

\* C9, amended: the other metrics are sent only after up, which carries the
\* decoded is_currently_running value; an invocation that returns has made the
\* four requests and sent all nineteen metrics, also when that value is 0.
C9_UpFirstThenEverything ==
    \A i \in Collects :
        /\ ch[i] # <<>> =>
               ch[i][1] = Metric(up, systemStatusObject[i].Running, "")
        /\ Len(requested[i]) > 1 => ch[i] # <<>>
        /\ pc[i] = "done" =>
               /\ Len(requested[i]) = 4
               /\ Names(i) = {up, versionInfo} \cup HostNames \cup ServiceNames

\* C9, reached: the backend reported is_currently_running = 0 and the
\* invocation returned after sending every metric.
C9_Witness ==
    \E i \in Collects :
        /\ pc[i] = "done"
        /\ systemStatusObject[i].Running = 0
        /\ ch[i][1] = Metric(up, 0, "")
        /\ Len(ch[i]) = 19
        /\ Len(requested[i]) = 4

\* C10: hosts_total is the number of host records aggregated, whatever
\* recordcount says, so that active + passive = hosts_total in what was sent;
\* and likewise services_total.
C10_TotalsCountRecords ==
    \A i \in Collects :
        /\ hostStatusObject[i].decoded =>
               /\ Sent(i, hostsTotal) = {Len(hostStatusObject[i].list)}
               /\ \A a \in Sent(i, hostsActivelyCheckedTotal) :
                    \A b \in Sent(i, hostsPassivelyCheckedTotal) :
                        Sent(i, hostsTotal) = {a + b}
        /\ serviceStatusObject[i].decoded =>
               Sent(i, servicesTotal) = {Len(serviceStatusObject[i].list)}

=============================================================================
